---- MODULE Spec2Model ----
(***************************************************************************)
(* Model of the PS0 autograder (autograde.ts): the isolated test runner    *)
(* runTests, the artifact collector collectPersonalArt and the grading     *)
(* loop of runAutograder, over an abstract file system.                    *)
(*                                                                         *)
(* A file is a record of who wrote it and what it is; a test module also   *)
(* carries its import lines, which is all the import-rewrite pass of       *)
(* runTests looks at.  A directory is either absent or a map from the      *)
(* flat file names the autograder uses to files.  Every fs call and the    *)
(* child process can fail; which one fails is an input (env) of the call.  *)
(***************************************************************************)
EXTENDS Integers, Sequences, FiniteSets, TLC

VARIABLES
    instructor,     \* instructor/src/turtle.ts, instructor/src/turtlesoup.ts, instructor/test/turtlesoupTest.ts
    subs,           \* Submissions_auto/<studentId>/: src/turtlesoup.ts, test/turtlesoupTest.ts, tmp_test, tmp_art
    students,       \* discoverStudentSubmissions(): the student ids, in discovery order
    pc,             \* position of runAutograder
    studentResult,  \* the StudentResult being assembled
    gradingReport,  \* the GradingReport: students (records) and summary
    lastCall,       \* the most recent call of runTests / collectPersonalArt: inputs, events, result
    log,            \* the steps completed so far, as <<studentId, step>>
    results,        \* a parsed mocha report handed to the result-processing loops
    processed,      \* what the loops made of it
    own,            \* ghost: each submission directory as discovered, and the inputs of the calls made for the current submission
    gallery,        \* the layout of student_art_gallery.html
    arg,            \* the arguments of a call of a function of llm-grader.ts
    ret             \* the value that call returned

vars == <<instructor, subs, students, pc, studentResult, gradingReport,
          lastCall, log, results, processed, own, gallery, arg, ret>>

-----------------------------------------------------------------------------
(* Bounds *)

MaxStudents == 2
MaxTests == 2
MaxImports == 1

-----------------------------------------------------------------------------
(* Files and directories *)

FileNames == {"turtle.ts", "turtlesoup.ts", "turtlesoupTest.ts", "wrapper.ts", "path.json"}

Absent == [owner |-> "none", unit |-> "none", body |-> <<>>, data |-> "none"]

\* body: the import lines of a test module, the segments of a path.json;
\* data: whether JSON.parse accepts the file ("valid"), rejects it
\* ("malformed"), or the file is no JSON document ("none").
File(owner, unit) == [owner |-> owner, unit |-> unit, body |-> <<>>, data |-> "none"]

TestFile(owner, lines) == [owner |-> owner, unit |-> "test", body |-> lines, data |-> "none"]

PathFile(owner, data, path) == [owner |-> owner, unit |-> "segments", body |-> path, data |-> data]

NoDir == [exists |-> FALSE, files |-> [n \in FileNames |-> Absent]]

EmptyDir == [exists |-> TRUE, files |-> [n \in FileNames |-> Absent]]

\* An import line of a test module: from <quote><path><quote>, the path
\* ../src/<module> (nested) or ./<module> (sibling).
Modules == {"turtlesoup", "turtle"}
Quotes == {"double", "single"}
ImportLines == [quote : Quotes, nested : BOOLEAN, module : Modules]

Import(quote, nested, module) == [quote |-> quote, nested |-> nested, module |-> module]

\* Where node resolves an import of a module that sits in the sandbox
\* <studentDir>/tmp_test: ./X is the sandbox's X.ts, ../src/X is
\* <studentDir>/src/X.ts.
Resolve(line) ==
    IF line.nested
    THEN [place |-> "studentSrc", name |-> line.module]
    ELSE [place |-> "sandbox", name |-> line.module]

-----------------------------------------------------------------------------
(* Errors and events *)

NoError == [thrown |-> FALSE, message |-> ""]

Throw(message) == [thrown |-> TRUE, message |-> message]

Event(op, ok) == [op |-> op, ok |-> ok]

\* The state of one call while its try block runs.
Begin(dir) ==
    [dir |-> dir, error |-> NoError, trace |-> <<>>,
     executed |-> FALSE, exec |-> NoDir, escaped |-> FALSE,
     stdout |-> <<>>, allPassed |-> TRUE, testResults |-> <<>>, pathData |-> <<>>]

Fail(cs, op, message) ==
    [cs EXCEPT !.error = Throw(message), !.trace = Append(@, Event(op, FALSE))]

Ok(cs, op) == [cs EXCEPT !.trace = Append(@, Event(op, TRUE))]

\* fs.mkdirSync under "if (!fs.existsSync(dir))"
mkdirSync(cs, env) ==
    IF cs.error.thrown \/ cs.dir.exists THEN cs
    ELSE IF env.fault = "mkdir"
         THEN Fail(cs, "mkdir", "EACCES: permission denied, mkdir")
         ELSE Ok([cs EXCEPT !.dir = EmptyDir], "mkdir")

\* Mutant of copyFileSync: a missing source is reported and skipped, as the
\* unused helper copyFiles does.
copyFileSync_skipMissing(cs, source, name, op, env) ==
    IF cs.error.thrown THEN cs
    ELSE IF source = Absent
         THEN [cs EXCEPT !.trace = Append(@, Event(op, FALSE))]
         ELSE IF env.fault = op
              THEN Fail(cs, op, "EACCES: permission denied, copyfile")
              ELSE Ok([cs EXCEPT !.dir.files[name] = source], op)

\* fs.copyFileSync(source, sandbox/name): throws when the source is missing.
copyFileSync(cs, source, name, op, env) ==
    IF cs.error.thrown THEN cs
    ELSE IF source = Absent
         THEN Fail(cs, op, "ENOENT: no such file or directory, copyfile")
         ELSE IF env.fault = op
              THEN Fail(cs, op, "EACCES: permission denied, copyfile")
              ELSE Ok([cs EXCEPT !.dir.files[name] = source], op)

\* String.prototype.replace(/from "<pattern>"/g, 'from "<replacement>"') over
\* the import lines of a module.
replace(lines, pattern, replacement) ==
    [i \in DOMAIN lines |-> IF lines[i] = pattern THEN replacement ELSE lines[i]]

\* Lines 162-175 and 191-204: read the copied test module, substitute the
\* import paths, write it back.
fixImports(cs, useInstructorTests, env) ==
    IF cs.error.thrown THEN cs
    ELSE IF env.fault = "read"
    THEN Fail(cs, "read", "EACCES: permission denied, open")
    ELSE LET testContent == cs.dir.files["turtlesoupTest.ts"].body
             fixed ==
                 IF useInstructorTests
                 THEN replace(replace(testContent,
                                      Import("double", TRUE, "turtlesoup"),
                                      Import("double", FALSE, "turtlesoup")),
                              Import("double", TRUE, "turtle"),
                              Import("double", FALSE, "turtle"))
                 ELSE replace(replace(testContent,
                                      Import("double", FALSE, "turtlesoup"),
                                      Import("double", FALSE, "turtlesoup")),
                              Import("double", FALSE, "turtle"),
                              Import("double", FALSE, "turtle"))
         IN IF env.fault = "write"
            THEN Fail(Ok(cs, "read"), "write", "EACCES: permission denied, open")
            ELSE Ok(Ok([cs EXCEPT !.dir.files["turtlesoupTest.ts"].body = fixed],
                       "read"), "write")

\* Mutant of copySources: the second branch takes the implementation from
\* the student's directory too.
copySources_studentImpl(cs, sub, instr, useInstructorTests, env) ==
    copyFileSync(
        copyFileSync(
            copyFileSync(cs, instr.turtle, "turtle.ts", "copyTurtle", env),
            sub.src, "turtlesoup.ts", "copyImpl", env),
        IF useInstructorTests THEN instr.test ELSE sub.test,
        "turtlesoupTest.ts", "copyTest", env)

\* Lines 146-160 and 177-189: the three files of the direction.
copySources(cs, sub, instr, useInstructorTests, env) ==
    IF useInstructorTests
    THEN copyFileSync(
             copyFileSync(
                 copyFileSync(cs, instr.turtle, "turtle.ts", "copyTurtle", env),
                 sub.src, "turtlesoup.ts", "copyImpl", env),
             instr.test, "turtlesoupTest.ts", "copyTest", env)
    ELSE copyFileSync(
             copyFileSync(
                 copyFileSync(cs, instr.turtle, "turtle.ts", "copyTurtle", env),
                 instr.turtlesoup, "turtlesoup.ts", "copyImpl", env),
             sub.test, "turtlesoupTest.ts", "copyTest", env)

\* execSync(cmd): runs the child in the sandbox and throws when it exits
\* with a status other than zero; otherwise returns what it printed.
execSync(cs, env) ==
    IF cs.error.thrown THEN cs
    ELSE LET ran == [cs EXCEPT !.executed = TRUE, !.exec = cs.dir]
         IN IF env.child.status # 0
            THEN Fail(ran, "exec", "Command failed: npx mocha")
            ELSE Ok([ran EXCEPT !.stdout = env.child.stdout], "exec")

\* The two loops of lines 217-226 over an array of tests (each test stands
\* for its fullTitle).
RECURSIVE mark(_, _, _)
mark(tests, value, testResults) ==
    IF tests = <<>> THEN testResults
    ELSE mark(Tail(tests), value,
              [n \in (DOMAIN testResults) \cup {Head(tests)} |->
                  IF n = Head(tests) THEN value ELSE testResults[n]])

\* Mutant of processResults: the failures loop runs before the passes loop.
processResults_failuresFirst(passes, failures) ==
    [testResults |-> mark(passes, TRUE, mark(failures, FALSE, <<>>)),
     allPassed |-> failures = <<>>]

processResults(passes, failures) ==
    [testResults |-> mark(failures, FALSE, mark(passes, TRUE, <<>>)),
     allPassed |-> failures = <<>>]

\* Lines 211-226: JSON.parse(output) and the loops. stdout.kind is
\* "garbage" (no JSON), "object" (JSON without a passes array) or "report".
parseOutput(cs) ==
    IF cs.error.thrown THEN cs
    ELSE IF cs.stdout.kind = "garbage"
    THEN Fail(cs, "parse", "Unexpected token in JSON at position 0")
    ELSE IF cs.stdout.kind = "object"
    THEN Fail(Ok(cs, "parse"), "process", "results.passes is not iterable")
    ELSE LET r == processResults(cs.stdout.passes, cs.stdout.failures)
         IN Ok(Ok([cs EXCEPT !.testResults = r.testResults,
                             !.allPassed = r.allPassed], "parse"), "process")

\* fs.rmSync(dir, { recursive: true, force: true }) at the end of the try block.
rmSync(cs, env) ==
    IF cs.error.thrown THEN cs
    ELSE IF env.fault = "rm"
         THEN Fail(cs, "rm", "EBUSY: resource busy or locked, rm")
         ELSE Ok([cs EXCEPT !.dir = NoDir], "rm")

\* Mutant of cleanupInCatch: the catch block does not remove the sandbox.
cleanupInCatch_none(cs, env) == cs

\* Mutant of cleanupInCatch: the removal in the catch block is not itself
\* wrapped in try/catch, so its failure leaves the function as an exception.
cleanupInCatch_unguarded(cs, env) ==
    IF ~cs.error.thrown \/ ~cs.dir.exists THEN cs
    ELSE IF env.rmCatchFails
         THEN [cs EXCEPT !.trace = Append(@, Event("rmCatch", FALSE)),
                         !.escaped = TRUE]
         ELSE [cs EXCEPT !.dir = NoDir, !.trace = Append(@, Event("rmCatch", TRUE))]

\* Lines 238-245 and 322-329: the cleanup of the catch block.
cleanupInCatch(cs, env) ==
    IF ~cs.error.thrown \/ ~cs.dir.exists THEN cs
    ELSE IF env.rmCatchFails
         THEN [cs EXCEPT !.trace = Append(@, Event("rmCatch", FALSE))]
         ELSE [cs EXCEPT !.dir = NoDir, !.trace = Append(@, Event("rmCatch", TRUE))]

\* Lines 231-234 and 247-251: the value runTests returns.
testOutcome(cs) ==
    IF cs.error.thrown
    THEN [overall |-> FALSE, details |-> <<>>, errors |-> cs.error.message]
    ELSE [overall |-> cs.allPassed, details |-> cs.testResults]

Returned(cs, outcome) ==
    [outcome |-> outcome, dir |-> cs.dir, trace |-> cs.trace,
     executed |-> cs.executed, exec |-> cs.exec, escaped |-> cs.escaped]

runTests(sub, instr, useInstructorTests, env) ==
    LET c1 == mkdirSync(Begin(sub.tmp_test), env)
        c2 == copySources(c1, sub, instr, useInstructorTests, env)
        c3 == fixImports(c2, useInstructorTests, env)
        c4 == execSync(c3, env)
        c5 == parseOutput(c4)
        c6 == rmSync(c5, env)
        c7 == cleanupInCatch(c6, env)
    IN Returned(c7, testOutcome(c7))

-----------------------------------------------------------------------------
(* collectPersonalArt *)

\* Lines 283-303: the generated driver, written into the sandbox.
writeWrapper(cs, env) ==
    IF cs.error.thrown THEN cs
    ELSE IF env.fault = "writeWrapper"
         THEN Fail(cs, "writeWrapper", "EACCES: permission denied, open")
         ELSE Ok([cs EXCEPT !.dir.files["wrapper.ts"] = File("autograder", "driver")],
                 "writeWrapper")

\* Mutant of execDriver: the exit status of the driver is not looked at.
execDriver_ignoreStatus(cs, env) ==
    IF cs.error.thrown THEN cs
    ELSE LET ran == [cs EXCEPT !.executed = TRUE, !.exec = cs.dir]
         IN Ok(IF env.child.wrote = "none" THEN ran
               ELSE [ran EXCEPT !.dir.files["path.json"] =
                         PathFile("child", env.child.wrote, env.child.path)],
               "exec")

\* Lines 306-308: execSync of the driver. The driver writes path.json when
\* it gets that far (env.child.wrote) and exits with env.child.status.
execDriver(cs, env) ==
    IF cs.error.thrown THEN cs
    ELSE LET ran == [cs EXCEPT !.executed = TRUE, !.exec = cs.dir]
             left == IF env.child.wrote = "none" THEN ran
                     ELSE [ran EXCEPT !.dir.files["path.json"] =
                               PathFile("child", env.child.wrote, env.child.path)]
         IN IF env.child.status # 0
            THEN Fail(left, "exec", "Command failed: npx ts-node wrapper.ts")
            ELSE Ok(left, "exec")

\* Lines 311-313: JSON.parse(fs.readFileSync(path.json)).
readPathData(cs, env) ==
    IF cs.error.thrown THEN cs
    ELSE LET file == cs.dir.files["path.json"]
         IN IF file = Absent
            THEN Fail(cs, "readPath", "ENOENT: no such file or directory, open")
            ELSE IF env.fault = "readPath"
            THEN Fail(cs, "readPath", "EACCES: permission denied, open")
            ELSE IF file.data # "valid"
            THEN Fail(Ok(cs, "readPath"), "parsePath", "Unexpected end of JSON input")
            ELSE Ok(Ok([cs EXCEPT !.pathData = file.body], "readPath"), "parsePath")

\* Lines 318 and 331-334: the value collectPersonalArt returns.
artResult(cs) ==
    IF cs.error.thrown
    THEN [pathData |-> <<>>, error |-> cs.error.message]
    ELSE [pathData |-> cs.pathData]

collectPersonalArt(sub, instr, env) ==
    LET c1 == mkdirSync(Begin(sub.tmp_art), env)
        c2 == copyFileSync(c1, instr.turtle, "turtle.ts", "copyTurtle", env)
        c3 == copyFileSync(c2, sub.src, "turtlesoup.ts", "copyImpl", env)
        c4 == writeWrapper(c3, env)
        c5 == execDriver(c4, env)
        c6 == readPathData(c5, env)
        c7 == rmSync(c6, env)
        c8 == cleanupInCatch(c7, env)
    IN Returned(c8, artResult(c8))

-----------------------------------------------------------------------------
(* Inputs *)

ImportSeqs == UNION {[1..n -> ImportLines] : n \in 0..MaxImports}

\* The import lines of a test module kept at <dir>/test/, next to <dir>/src/.
NestedImports == <<Import("double", TRUE, "turtlesoup")>>

Report(passes, failures) == [kind |-> "report", passes |-> passes, failures |-> failures]

Garbage == [kind |-> "garbage", passes |-> <<>>, failures |-> <<>>]

NoPasses == [kind |-> "object", passes |-> <<>>, failures |-> <<>>]

Stdouts ==
    {Garbage, NoPasses, Report(<<>>, <<>>), Report(<<"a">>, <<>>),
     Report(<<>>, <<"a">>), Report(<<"a">>, <<"a">>), Report(<<"a">>, <<"b">>)}

TestChildren == [status : {0, 1}, stdout : Stdouts]

ArtChildren ==
    {[status |-> st, wrote |-> "none", path |-> <<>>] : st \in {0, 1}}
    \cup [status : {0, 1}, wrote : {"malformed"}, path : {<<>>}]
    \cup [status : {0, 1}, wrote : {"valid"}, path : {<<>>, <<"segment">>}]

\* Either a call fails before its child runs, or the child runs and at most
\* the removal fails afterwards; the retry in the catch block fails or not.
Envs(early, late, children) ==
    [fault : early, rmCatchFails : BOOLEAN,
     child : {CHOOSE c \in children : c.status = 0}]
    \cup [fault : late, rmCatchFails : BOOLEAN, child : children]

TestEnvs ==
    Envs({"mkdir", "copyTurtle", "copyImpl", "copyTest", "read", "write"},
         {"none", "rm"}, TestChildren)

ArtEnvs ==
    Envs({"mkdir", "copyTurtle", "copyImpl", "writeWrapper"},
         {"none", "readPath", "rm"}, ArtChildren)

\* What an earlier call whose removal failed leaves behind.
StaleTestDir ==
    [exists |-> TRUE,
     files |-> [n \in FileNames |->
        CASE n = "turtle.ts" -> File("stale", "primitive")
          [] n = "turtlesoup.ts" -> File("stale", "impl")
          [] n = "turtlesoupTest.ts" -> TestFile("stale", NestedImports)
          [] OTHER -> Absent]]

StaleArtDir ==
    [exists |-> TRUE,
     files |-> [n \in FileNames |->
        CASE n = "turtle.ts" -> File("stale", "primitive")
          [] n = "turtlesoup.ts" -> File("stale", "impl")
          [] n = "wrapper.ts" -> File("stale", "driver")
          [] n = "path.json" -> PathFile("stale", "valid", <<"old segment">>)
          [] OTHER -> Absent]]

InstructorFiles(lines, missing) ==
    [turtle |-> IF missing = "turtle" THEN Absent ELSE File("instructor", "primitive"),
     turtlesoup |-> IF missing = "turtlesoup" THEN Absent ELSE File("instructor", "impl"),
     test |-> IF missing = "test" THEN Absent ELSE TestFile("instructor", lines)]

Submission(hasSrc, hasTest, lines, stale) ==
    [src |-> IF hasSrc THEN File("student", "impl") ELSE Absent,
     test |-> IF hasTest THEN TestFile("student", lines) ELSE Absent,
     tmp_test |-> IF stale THEN StaleTestDir ELSE NoDir,
     tmp_art |-> IF stale THEN StaleArtDir ELSE NoDir]

NoCall == [fn |-> "none"]

NoOwn == [dir0 |-> <<>>, envs |-> <<>>]

NoGallery == [rendered |-> FALSE]

NoArg == [fn |-> "none"]

NoRet == [returned |-> FALSE]

NoResult == [studentId |-> 0]

EmptyReport ==
    [students |-> <<>>,
     summary |-> [totalStudents |-> 0, passedImplementationTests |-> 0,
                  passedStudentTests |-> 0, personalArtGenerationSuccess |-> 0]]

-----------------------------------------------------------------------------
(* One call of runTests or collectPersonalArt on one submission directory *)

InitCall ==
    /\ \E lines \in ImportSeqs, missing \in {"none", "turtle", "turtlesoup", "test"},
          hasSrc \in BOOLEAN, hasTest \in BOOLEAN, stale \in BOOLEAN :
          /\ instructor = InstructorFiles(lines, missing)
          /\ subs = [s \in {1} |-> Submission(hasSrc, hasTest, lines, stale)]
    /\ students = <<1>>
    /\ pc = "call"
    /\ studentResult = NoResult
    /\ gradingReport = EmptyReport
    /\ lastCall = NoCall
    /\ log = <<>>
    /\ results = Report(<<>>, <<>>)
    /\ processed = processResults(<<>>, <<>>)
    /\ own = NoOwn
    /\ gallery = NoGallery
    /\ arg = NoArg
    /\ ret = NoRet

CallRunTests ==
    /\ pc = "call"
    /\ \E useInstructorTests \in BOOLEAN, env \in TestEnvs :
          LET r == runTests(subs[1], instructor, useInstructorTests, env)
          IN /\ lastCall' = [fn |-> "runTests", student |-> 1,
                             useInstructorTests |-> useInstructorTests,
                             env |-> env, before |-> subs[1].tmp_test, result |-> r]
             /\ subs' = [subs EXCEPT ![1].tmp_test = r.dir]
    /\ pc' = "returned"
    /\ UNCHANGED <<instructor, students, studentResult, gradingReport, log,
                   results, processed, own, gallery, arg, ret>>

CallCollectPersonalArt ==
    /\ pc = "call"
    /\ \E env \in ArtEnvs :
          LET r == collectPersonalArt(subs[1], instructor, env)
          IN /\ lastCall' = [fn |-> "collectPersonalArt", student |-> 1,
                             useInstructorTests |-> FALSE,
                             env |-> env, before |-> subs[1].tmp_art, result |-> r]
             /\ subs' = [subs EXCEPT ![1].tmp_art = r.dir]
    /\ pc' = "returned"
    /\ UNCHANGED <<instructor, students, studentResult, gradingReport, log,
                   results, processed, own, gallery, arg, ret>>

NextCall == CallRunTests \/ CallCollectPersonalArt

SpecCall == InitCall /\ [][NextCall]_vars

-----------------------------------------------------------------------------
(* Properties of one call *)

Returned1 == pc = "returned"

IsRunTests == Returned1 /\ lastCall.fn = "runTests"

IsArt == Returned1 /\ lastCall.fn = "collectPersonalArt"

\* The sandbox directory of the last call, as the file system has it now.
Sandbox ==
    IF lastCall.fn = "runTests" THEN subs[lastCall.student].tmp_test
    ELSE subs[lastCall.student].tmp_art

Removals(trace) == SelectSeq(trace, LAMBDA e : e.op \in {"rm", "rmCatch"})

LastRemovalFailed(trace) ==
    LET rms == Removals(trace) IN rms # <<>> /\ ~rms[Len(rms)].ok

HasErrors(outcome) == "errors" \in DOMAIN outcome

HasError(art) == "error" \in DOMAIN art

Failed(trace, ops) == \E i \in DOMAIN trace : trace[i].op \in ops /\ ~trace[i].ok

Succeeded(trace, op) == \E i \in DOMAIN trace : trace[i].op = op /\ trace[i].ok

Units(dir, unit) == {n \in FileNames : dir.files[n].unit = unit}

C2_OneImplOneTestEverySandbox ==
    (Returned1 /\ lastCall.result.executed) =>
        LET d == lastCall.result.exec
        IN /\ Cardinality(Units(d, "impl")) = 1
           /\ Cardinality(Units(d, "test")) = 1
           /\ <<d.files["turtlesoup.ts"].owner, d.files["turtlesoupTest.ts"].owner>>
                 \in {<<"student", "instructor">>, <<"instructor", "student">>}

\* C2 as amended: a runTests sandbox holds, when its child is executed,
\* exactly one implementation source and one test source, paired as the
\* direction says; a collectPersonalArt sandbox holds the student's
\* implementation and the generated driver, and no test source.
C2_PairingByDirection ==
    (Returned1 /\ lastCall.result.executed) =>
        LET d == lastCall.result.exec
        IN /\ Units(d, "impl") = {"turtlesoup.ts"}
           /\ IsRunTests =>
                 /\ Units(d, "test") = {"turtlesoupTest.ts"}
                 /\ <<d.files["turtlesoup.ts"].owner, d.files["turtlesoupTest.ts"].owner>>
                       = IF lastCall.useInstructorTests
                         THEN <<"student", "instructor">>
                         ELSE <<"instructor", "student">>
           /\ IsArt =>
                 /\ Units(d, "test") = {}
                 /\ d.files["turtlesoup.ts"].owner = "student"
                 /\ d.files["wrapper.ts"].owner = "autograder"

\* StudentTestCheck executed in a directory an earlier call left behind.
C2_Witness ==
    /\ IsRunTests
    /\ ~lastCall.useInstructorTests
    /\ lastCall.before.exists
    /\ lastCall.result.executed

\* The implementation module an import of turtlesoup in the sandbox's test
\* module loads: the sandbox's flat copy, or <studentDir>/src/turtlesoup.ts.
ResolvedImpl(line, dir, sub) ==
    IF Resolve(line).place = "sandbox" THEN dir.files["turtlesoup.ts"] ELSE sub.src

\* C3: in both directions, every import line of the test module in the
\* sandbox at execution time, nested or sibling, resolves to the flat file
\* of that name inside the sandbox; under StudentTestCheck the implementation
\* it resolves to is the instructor's. Stated for the import lines written
\* with double quotes, the only ones the patterns of the rewrite can match.
C3_ImportsResolveInsideSandbox ==
    (IsRunTests /\ lastCall.result.executed) =>
        LET d == lastCall.result.exec
            lines == d.files["turtlesoupTest.ts"].body
        IN \A i \in DOMAIN lines :
              lines[i].quote = "double" =>
              /\ Resolve(lines[i]).place = "sandbox"
              /\ (~lastCall.useInstructorTests /\ lines[i].module = "turtlesoup")
                    => ResolvedImpl(lines[i], d, subs[lastCall.student]).owner = "instructor"

\* C6: when the instructor tests have a failing case against the student's
\* implementation and no fs call fails, the ImplementationCheck outcome has
\* overall = false and details maps every failing case to false, also when
\* the framework exits with a non-zero status.
C6_FailingTestInDetails ==
    (/\ IsRunTests
     /\ lastCall.useInstructorTests
     /\ lastCall.result.executed
     /\ lastCall.env.fault = "none"
     /\ lastCall.env.child.stdout.kind = "report"
     /\ lastCall.env.child.stdout.failures # <<>>) =>
        LET o == lastCall.result.outcome
            failures == lastCall.env.child.stdout.failures
        IN /\ o.overall = FALSE
           /\ \A i \in DOMAIN failures :
                 failures[i] \in DOMAIN o.details /\ o.details[failures[i]] = FALSE

\* The files the direction of the last runTests call needs.
Needed ==
    IF lastCall.useInstructorTests
    THEN {instructor.turtle, subs[lastCall.student].src, instructor.test}
    ELSE {instructor.turtle, instructor.turtlesoup, subs[lastCall.student].test}

ErrorOutcome(o) ==
    /\ o.overall = FALSE
    /\ o.details = <<>>
    /\ HasErrors(o)
    /\ o.errors # ""

\* C7: a runTests call in which directory creation, a file copy (a missing
\* source included), the rewrite of the test module, a child that printed
\* nothing parseable, or the parsing failed returns overall = false, empty
\* details and a non-empty errors text; an outcome without errors comes
\* only from a call in which every step up to the parsing succeeded.
C7_FailureGivesErrorOutcome ==
    IsRunTests =>
        LET o == lastCall.result.outcome
            trace == lastCall.result.trace
        IN /\ Failed(trace, {"mkdir", "copyTurtle", "copyImpl", "copyTest",
                             "read", "write", "parse", "process"})
                 => ErrorOutcome(o)
           /\ Absent \in Needed => ErrorOutcome(o)
           /\ (lastCall.result.executed /\ lastCall.env.child.stdout.kind # "report")
                 => ErrorOutcome(o)
           /\ ~HasErrors(o) =>
                 /\ \A i \in DOMAIN trace : trace[i].ok
                 /\ Succeeded(trace, "exec") /\ Succeeded(trace, "process")
                 /\ Absent \notin Needed

\* A StudentTestCheck of a submission without a test module.
C7_Witness ==
    /\ IsRunTests
    /\ ~lastCall.useInstructorTests
    /\ subs[lastCall.student].test = Absent
    /\ instructor.turtle # Absent /\ instructor.turtlesoup # Absent
    /\ ErrorOutcome(lastCall.result.outcome)

ErrorArt(a) == a.pathData = <<>> /\ HasError(a) /\ a.error # ""

-----------------------------------------------------------------------------
(* The result-processing loops on their own *)

TestNames == {"a", "b", "c"}

TestSeqs == UNION {[1..n -> TestNames] : n \in 0..MaxTests}

InitParse ==
    /\ results \in {Garbage, NoPasses} \cup {Report(p, f) : p \in TestSeqs, f \in TestSeqs}
    /\ processed = processResults(<<>>, <<>>)
    /\ pc = "parse"
    /\ instructor = InstructorFiles(NestedImports, "none")
    /\ subs = <<>>
    /\ students = <<>>
    /\ studentResult = NoResult
    /\ gradingReport = EmptyReport
    /\ lastCall = NoCall
    /\ log = <<>>
    /\ own = NoOwn
    /\ gallery = NoGallery
    /\ arg = NoArg
    /\ ret = NoRet

\* Lines 211-234 (and the catch of 247-251) on the output of a child that
\* exited with status zero.
ParseAndReturn ==
    /\ pc = "parse"
    /\ processed' = testOutcome(parseOutput([Begin(NoDir) EXCEPT !.stdout = results]))
    /\ pc' = "parsed"
    /\ UNCHANGED <<instructor, subs, students, studentResult, gradingReport,
                   lastCall, log, results, own, gallery, arg, ret>>

NextParse == ParseAndReturn

SpecParse == InitParse /\ [][NextParse]_vars

AllTrue(details) == \A n \in DOMAIN details : details[n]

Range(seq) == {seq[i] : i \in DOMAIN seq}

\* C8: an outcome built from parsed framework output has overall equal to
\* the conjunction of the values of details (true when details is empty),
\* whatever the passes and failures lists hold, a name in both lists or
\* more than once included.
C8_OverallIsConjunction ==
    (pc = "parsed" /\ ~HasErrors(processed)) =>
        /\ processed.overall = AllTrue(processed.details)
        /\ DOMAIN processed.details = Range(results.passes) \cup Range(results.failures)

\* A report that lists one name as passed and as failed.
C8_Witness ==
    /\ pc = "parsed"
    /\ ~HasErrors(processed)
    /\ Range(results.passes) \cap Range(results.failures) # {}
    /\ Len(results.passes) = 2
    /\ processed.overall = FALSE

-----------------------------------------------------------------------------
(* runAutograder: the grading loop *)

\* The submissions of a run: complete, or without a test module.
RunSubmissions ==
    {Submission(TRUE, TRUE, NestedImports, FALSE),
     Submission(TRUE, FALSE, <<>>, FALSE)}

TestEnv(fault, rmCatchFails, status, stdout) ==
    [fault |-> fault, rmCatchFails |-> rmCatchFails,
     child |-> [status |-> status, stdout |-> stdout]]

\* What a run meets in a call of runTests: every case passes, no case at
\* all, a failing case reported with exit status 1, a removal that keeps
\* failing.
RunTestEnvs ==
    {TestEnv("none", FALSE, 0, Report(<<"a">>, <<>>)),
     TestEnv("none", FALSE, 0, Report(<<>>, <<>>)),
     TestEnv("none", FALSE, 1, Report(<<>>, <<"a">>)),
     TestEnv("rm", TRUE, 0, Report(<<"a">>, <<>>))}

ArtEnv(fault, rmCatchFails, status, wrote, path) ==
    [fault |-> fault, rmCatchFails |-> rmCatchFails,
     child |-> [status |-> status, wrote |-> wrote, path |-> path]]

\* What a run meets in a call of collectPersonalArt: art drawn, or the
\* entry point raising.
RunArtEnvs ==
    {ArtEnv("none", FALSE, 0, "valid", <<"segment">>),
     ArtEnv("none", FALSE, 1, "none", <<>>)}

\* Lines 370-383.
InitialResult(studentId) ==
    [studentId |-> studentId,
     implementationTests |-> [overall |-> FALSE, details |-> <<>>],
     studentTests |-> [overall |-> FALSE, details |-> <<>>],
     personalArt |-> [pathData |-> <<>>]]

\* Lines 391-393 and 401-403: if (outcome.overall) summary[field]++.
countPassed(summary, field, outcome) ==
    IF outcome.overall THEN [summary EXCEPT ![field] = @ + 1] ELSE summary

\* Mutant of countArt: the negation is dropped.
countArt_errorCounted(summary, art) ==
    IF HasError(art) /\ art.error # ""
    THEN [summary EXCEPT !.personalArtGenerationSuccess = @ + 1]
    ELSE summary

\* Lines 409-411: if (!personalArt.error) summary.personalArtGenerationSuccess++.
countArt(summary, art) ==
    IF ~HasError(art) \/ art.error = ""
    THEN [summary EXCEPT !.personalArtGenerationSuccess = @ + 1]
    ELSE summary

\* Mutant of tmpDirOwner: one sandbox directory shared by every submission
\* (path.join("tmp_test") in place of path.join(studentDir, "tmp_test")).
tmpDirOwner_shared(studentId) == 1

\* Lines 138 and 264 with line 367: path.join(studentDir, "tmp_test") and
\* path.join(studentDir, "tmp_art"), studentDir being
\* path.join(submissionsDir, studentId): the sandbox of a call is a
\* directory of the submission the call is made for.
tmpDirOwner(studentId) == studentId

\* Lines 367, 389, 399, 407: the directory handed to the calls made for
\* studentId.
studentDir(dirs, studentId) ==
    [dirs[studentId] EXCEPT !.tmp_test = dirs[tmpDirOwner(studentId)].tmp_test,
                            !.tmp_art = dirs[tmpDirOwner(studentId)].tmp_art]

\* Mutant of nextStep: a step whose outcome reports a failure is run again.
nextStep_retry(step, outcome) ==
    IF "errors" \in DOMAIN outcome THEN step
    ELSE IF step = "step1" THEN "step2" ELSE "step3"

\* Lines 389, 399, 407: the three calls are consecutive statements of the
\* loop body; what a step returned is not consulted.
nextStep(step, outcome) == IF step = "step1" THEN "step2" ELSE "step3"

\* Lines 421-425.
canvasWidth == 400
canvasHeight == 400
padding == 20
studentsPerRow == 5
labelHeight == 30

\* Math.ceil(a / b) on naturals.
Ceil(a, b) == (a + b - 1) \div b

\* Mutant of nextValidIndex: the counter of rendered submissions stands still.
nextValidIndex_stuck(validStudentIndex) == validStudentIndex

\* Line 499: validStudentIndex++.
nextValidIndex(validStudentIndex) == validStudentIndex + 1

\* Lines 445-449: the cell and the offsets of the next rendered submission.
placeCanvas(student, validStudentIndex) ==
    LET row == validStudentIndex \div studentsPerRow
        col == validStudentIndex % studentsPerRow
    IN [studentId |-> student.studentId, row |-> row, col |-> col,
        xOffset |-> padding + col * (canvasWidth + padding),
        yOffset |-> padding + row * (canvasHeight + labelHeight + padding)]

\* Lines 437-500: gradingReport.students.forEach; a record whose personalArt
\* has a truthy error is skipped (lines 439-442).
RECURSIVE renderStudents(_, _, _, _)
renderStudents(records, i, validStudentIndex, canvases) ==
    IF i > Len(records) THEN canvases
    ELSE IF HasError(records[i].personalArt) /\ records[i].personalArt.error # ""
    THEN renderStudents(records, i + 1, validStudentIndex, canvases)
    ELSE renderStudents(records, i + 1, nextValidIndex(validStudentIndex),
                        Append(canvases, placeCanvas(records[i], validStudentIndex)))

\* Lines 428-435 and 437-500: the dimensions of the svg and the canvases
\* placed in it.
generateGrid(records) ==
    LET totalRows == Ceil(Len(records), studentsPerRow)
    IN [rendered |-> TRUE,
        totalRows |-> totalRows,
        fullWidth |-> studentsPerRow * (canvasWidth + padding) + padding,
        fullHeight |-> totalRows * (canvasHeight + labelHeight + padding) + padding,
        canvases |-> renderStudents(records, 1, 0, <<>>)]

\* The submission the loop is working on: the one after the last record.
Current == students[Len(gradingReport.students) + 1]

Init ==
    /\ \E n \in 0..MaxStudents :
          /\ students = [i \in 1..n |-> i]
          /\ subs \in [1..n -> RunSubmissions]
    /\ instructor = InstructorFiles(NestedImports, "none")
    /\ pc = "start"
    /\ studentResult = NoResult
    /\ gradingReport = EmptyReport
    /\ lastCall = NoCall
    /\ log = <<>>
    /\ results = Report(<<>>, <<>>)
    /\ processed = processResults(<<>>, <<>>)
    /\ own = [dir0 |-> subs, envs |-> <<>>]
    /\ gallery = NoGallery
    /\ arg = NoArg
    /\ ret = NoRet

\* Lines 348-362: the report is prepared for the discovered submissions.
Prepare ==
    /\ pc = "start"
    /\ gradingReport' = [EmptyReport EXCEPT !.summary.totalStudents = Len(students)]
    /\ pc' = IF students = <<>> THEN "grid" ELSE "step1"
    /\ UNCHANGED <<instructor, subs, students, studentResult, lastCall, log,
                   results, processed, own, gallery, arg, ret>>

\* Lines 366-393: step 1, the instructor's tests against the student's
\* implementation.
ImplementationCheck ==
    /\ pc = "step1"
    /\ \E env \in RunTestEnvs :
          LET sub == studentDir(subs, Current)
              r == runTests(sub, instructor, TRUE, env)
          IN /\ lastCall' = [fn |-> "runTests", student |-> Current,
                             useInstructorTests |-> TRUE, env |-> env,
                             before |-> sub.tmp_test, result |-> r]
             /\ subs' = [subs EXCEPT ![tmpDirOwner(Current)].tmp_test = r.dir]
             /\ own' = [own EXCEPT !.envs = <<env>>]
             /\ IF r.escaped
                THEN /\ pc' = "crashed"
                     /\ UNCHANGED <<studentResult, gradingReport, log>>
                ELSE /\ studentResult' =
                           [InitialResult(Current) EXCEPT !.implementationTests = r.outcome]
                     /\ gradingReport' =
                           [gradingReport EXCEPT !.summary =
                               countPassed(@, "passedImplementationTests", r.outcome)]
                     /\ log' = Append(log, <<Current, "ImplementationCheck">>)
                     /\ pc' = nextStep("step1", r.outcome)
    /\ UNCHANGED <<instructor, students, results, processed, gallery, arg, ret>>

\* Lines 395-403: step 2, the student's tests against the instructor's
\* implementation.
StudentTestCheck ==
    /\ pc = "step2"
    /\ \E env \in RunTestEnvs :
          LET sub == studentDir(subs, Current)
              r == runTests(sub, instructor, FALSE, env)
          IN /\ lastCall' = [fn |-> "runTests", student |-> Current,
                             useInstructorTests |-> FALSE, env |-> env,
                             before |-> sub.tmp_test, result |-> r]
             /\ subs' = [subs EXCEPT ![tmpDirOwner(Current)].tmp_test = r.dir]
             /\ own' = [own EXCEPT !.envs = Append(@, env)]
             /\ IF r.escaped
                THEN /\ pc' = "crashed"
                     /\ UNCHANGED <<studentResult, gradingReport, log>>
                ELSE /\ studentResult' = [studentResult EXCEPT !.studentTests = r.outcome]
                     /\ gradingReport' =
                           [gradingReport EXCEPT !.summary =
                               countPassed(@, "passedStudentTests", r.outcome)]
                     /\ log' = Append(log, <<Current, "StudentTestCheck">>)
                     /\ pc' = nextStep("step2", r.outcome)
    /\ UNCHANGED <<instructor, students, results, processed, gallery, arg, ret>>

\* Lines 405-415: step 3, the personal art, and the record appended.
ArtCollection ==
    /\ pc = "step3"
    /\ \E env \in RunArtEnvs :
          LET sub == studentDir(subs, Current)
              r == collectPersonalArt(sub, instructor, env)
              record == [studentResult EXCEPT !.personalArt = r.outcome]
          IN /\ lastCall' = [fn |-> "collectPersonalArt", student |-> Current,
                             useInstructorTests |-> FALSE, env |-> env,
                             before |-> sub.tmp_art, result |-> r]
             /\ subs' = [subs EXCEPT ![tmpDirOwner(Current)].tmp_art = r.dir]
             /\ own' = [own EXCEPT !.envs = Append(@, env)]
             /\ IF r.escaped
                THEN /\ pc' = "crashed"
                     /\ UNCHANGED <<studentResult, gradingReport, log>>
                ELSE /\ studentResult' = record
                     /\ gradingReport' =
                           [gradingReport EXCEPT
                               !.summary = countArt(@, r.outcome),
                               !.students = Append(@, record)]
                     /\ log' = Append(log, <<Current, "ArtCollection">>)
                     /\ pc' = IF Len(gradingReport.students) + 1 < Len(students)
                              THEN "step1" ELSE "grid"
    /\ UNCHANGED <<instructor, students, results, processed, gallery, arg, ret>>

\* Lines 417-545: the gallery and the report are written.
SaveReport ==
    /\ pc = "grid"
    /\ gallery' = generateGrid(gradingReport.students)
    /\ pc' = "done"
    /\ UNCHANGED <<instructor, subs, students, studentResult, gradingReport,
                   lastCall, log, results, processed, own, arg, ret>>

Next == Prepare \/ ImplementationCheck \/ StudentTestCheck \/ ArtCollection \/ SaveReport

Spec == Init /\ [][Next]_vars

-----------------------------------------------------------------------------
(* Properties of a run *)

Records == gradingReport.students

PassedImplementation(record) == record.implementationTests.overall

PassedStudentTests(record) == record.studentTests.overall

ArtWithoutError(record) == ~HasError(record.personalArt)

Count(P(_)) == Cardinality({i \in DOMAIN Records : P(Records[i])})

StepNames == <<"ImplementationCheck", "StudentTestCheck", "ArtCollection">>

\* The steps of a run over the discovered submissions, in order.
ExpectedLog ==
    [k \in 1..(3 * Len(students)) |->
        <<students[((k - 1) \div 3) + 1], StepNames[((k - 1) % 3) + 1]>>]

\* C4: over N discovered submissions the final report holds N records and
\* totalStudents = N; after each record is appended, and at the end, the
\* three counts of the summary equal the numbers of records whose
\* implementationTests.overall is true, whose studentTests.overall is true
\* and whose personalArt has no error.
C4_SummaryMatchesRecords ==
    /\ pc \in {"step1", "step2", "step3", "grid", "done"} =>
          gradingReport.summary.totalStudents = Len(students)
    /\ pc \in {"grid", "done"} => Len(Records) = Len(students)
    /\ pc \in {"step1", "grid", "done"} =>
          /\ gradingReport.summary.passedImplementationTests = Count(PassedImplementation)
          /\ gradingReport.summary.passedStudentTests = Count(PassedStudentTests)
          /\ gradingReport.summary.personalArtGenerationSuccess = Count(ArtWithoutError)

\* A finished run over two submissions, one passing each step, one not.
C4_Witness ==
    /\ pc = "done"
    /\ Len(Records) = 2
    /\ gradingReport.summary.passedImplementationTests = 1
    /\ gradingReport.summary.passedStudentTests = 1
    /\ gradingReport.summary.personalArtGenerationSuccess = 1

\* C5: no failure inside a step aborts the run: no call lets an exception
\* out, the steps are executed for every submission in discovery order
\* whatever the earlier steps returned, and the finished report has one
\* record per discovered submission, in discovery order.
C5_NoStepAbortsRun ==
    /\ pc # "crashed"
    /\ lastCall.fn # "none" => ~lastCall.result.escaped
    /\ pc \in {"step1", "step2", "step3", "grid", "done"} =>
          /\ Len(log) <= Len(ExpectedLog)
          /\ log = SubSeq(ExpectedLog, 1, Len(log))
    /\ pc \in {"grid", "done"} =>
          /\ log = ExpectedLog
          /\ [i \in DOMAIN Records |-> Records[i].studentId] = students

\* A finished run whose first submission failed in all three steps, the
\* removal of its test sandbox included, and whose second submission was
\* graded.
C5_Witness ==
    /\ pc = "done"
    /\ Len(Records) = 2
    /\ HasErrors(Records[1].implementationTests)
    /\ HasErrors(Records[1].studentTests)
    /\ HasError(Records[1].personalArt)
    /\ subs[1].tmp_test.exists
    /\ Records[2].implementationTests.overall

\* C9: a student test module without test cases (the framework reports no
\* passes and no failures, and exits with status zero) gives a
\* StudentTestCheck outcome that is flagged and is not overall = true, and
\* the submission is not counted in summary.passedStudentTests.
C9_ZeroTestsNotAVacuousPass ==
    (/\ pc = "step3"
     /\ lastCall.fn = "runTests"
     /\ ~lastCall.useInstructorTests
     /\ lastCall.result.executed
     /\ lastCall.env.fault = "none"
     /\ lastCall.env.child.status = 0
     /\ lastCall.env.child.stdout = Report(<<>>, <<>>)) =>
        /\ studentResult.studentTests.overall = FALSE
        /\ HasErrors(studentResult.studentTests)
        /\ gradingReport.summary.passedStudentTests = Count(PassedStudentTests)

-----------------------------------------------------------------------------
(* Isolation between submissions, and the order of the steps *)

\* Whether the call and the assembled results in the current state are
\* those of the k-th call made for a submission whose earlier calls
\* returned the outcomes given.
SameAsAlone(k, before, r, outcomes) ==
    /\ lastCall.before = before
    /\ lastCall.result = r
    /\ k = 1 => studentResult.implementationTests = outcomes[1]
    /\ k = 2 => /\ studentResult.implementationTests = outcomes[1]
                /\ studentResult.studentTests = outcomes[2]
    /\ k = 3 => gradingReport.students[Len(gradingReport.students)] =
                   [studentId |-> lastCall.student,
                    implementationTests |-> outcomes[1],
                    studentTests |-> outcomes[2],
                    personalArt |-> outcomes[3]]

\* C11: what a run returns for a submission B is a function of B's own
\* directory and of what B's own calls met, whatever the submissions graded
\* before it left behind: every call made for B finds the sandbox that B's
\* own calls produced, returns what it returns when B is graded alone
\* (r1, r2, r3 below: the three calls on B's directory as discovered), and
\* B's record is the record of B graded alone.  Hence B's ArtifactResult
\* and TestOutcomes are the same in the run where the art of A crashed and
\* in the run where it succeeded.
C11_ResultsIndependentOfEarlierSubmissions ==
    (pc \in {"step1", "step2", "step3", "grid", "done"} /\ lastCall.fn # "none") =>
        LET sub0 == own.dir0[lastCall.student]
            k == Len(own.envs)
            r1 == runTests(sub0, instructor, TRUE, own.envs[1])
            s1 == [sub0 EXCEPT !.tmp_test = r1.dir]
            r2 == runTests(s1, instructor, FALSE, own.envs[2])
            s2 == [s1 EXCEPT !.tmp_test = r2.dir]
            r3 == collectPersonalArt(s2, instructor, own.envs[3])
        IN IF k = 1 THEN SameAsAlone(1, sub0.tmp_test, r1, <<r1.outcome>>)
           ELSE IF k = 2 THEN SameAsAlone(2, s1.tmp_test, r2, <<r1.outcome, r2.outcome>>)
           ELSE SameAsAlone(3, s2.tmp_art, r3, <<r1.outcome, r2.outcome, r3.outcome>>)

\* The art of the first submission crashed, its test sandbox was left
\* behind by a failed removal, and the second submission was graded with
\* art.
C11_Witness ==
    /\ pc = "done"
    /\ Len(gradingReport.students) = 2
    /\ HasError(gradingReport.students[1].personalArt)
    /\ subs[1].tmp_test.exists
    /\ ~HasError(gradingReport.students[2].personalArt)
    /\ gradingReport.students[2].implementationTests.overall

\* C12: for each submission the three steps are run exactly once each, in
\* the order ImplementationCheck, StudentTestCheck, art collection, with no
\* retry after a failing step, and all three of one submission are done
\* before any step of the next; the position of the loop and the number of
\* steps done agree, so no step runs while another is pending.
C12_StepsOnceInOrder ==
    /\ \A i, j \in DOMAIN log : i # j => log[i] # log[j]
    /\ \A i \in DOMAIN log :
          /\ log[i][2] = StepNames[((i - 1) % 3) + 1]
          /\ log[i][1] = students[((i - 1) \div 3) + 1]
    /\ pc = "step1" => Len(log) = 3 * Len(gradingReport.students)
    /\ pc = "step2" => Len(log) = 3 * Len(gradingReport.students) + 1
    /\ pc = "step3" => Len(log) = 3 * Len(gradingReport.students) + 2
    /\ pc \in {"grid", "done"} => Len(log) = 3 * Len(students)
    /\ pc \in {"step2", "step3"} => lastCall.student = log[Len(log)][1]

\* A finished run of two submissions in which the first step of the first
\* submission failed and was followed by its second step.
C12_Witness ==
    /\ pc = "done"
    /\ Len(log) = 6
    /\ HasErrors(gradingReport.students[1].implementationTests)
    /\ log[2] = <<1, "StudentTestCheck">>
    /\ log[4] = <<2, "ImplementationCheck">>

-----------------------------------------------------------------------------
(* llm-grader.ts: extractFunction *)

MaxLines == 3
MaxBraces == 2

\* A line of source text, as far as extractFunction looks at it: the name
\* of the function the line declares with "export function <name>" ("none"
\* when it declares none), whether that declaration is indented, and the
\* braces of the line in the order they are written (on a declaration
\* line: after the declaration).
BraceSeqs == UNION {[1..n -> {"{", "}"}] : n \in 0..MaxBraces}

SourceLines ==
    {[declares |-> "f", indent |-> i, braces |-> b] : i \in BOOLEAN, b \in BraceSeqs}
    \cup {[declares |-> d, indent |-> FALSE, braces |-> b] :
             d \in {"fx", "none"}, b \in BraceSeqs}

SourceTexts == UNION {[1..n -> SourceLines] : n \in 0..MaxLines}

\* Line 145: lines[i].match(new RegExp(`export\\s+function\\s+${functionName}\\b`));
\* the word boundary keeps a longer name from matching.
Matches(line, functionName) == line.declares = functionName

\* Lines 164-165: (line.match(/{/g) || []).length and the same for "}".
CountOf(line, brace) == Len(SelectSeq(line.braces, LAMBDA b : b = brace))

\* Mutant of findStartLine: the search starts out at the first line in
\* place of -1.
findStartLine_first(lines, functionName) == IF lines = <<>> THEN 0 ELSE 1

\* Lines 138-151: the index of the first line that matches; 0 stands for
\* the -1 of the 0-based code.
findStartLine(lines, functionName) ==
    IF \E i \in DOMAIN lines : Matches(lines[i], functionName)
    THEN CHOOSE i \in DOMAIN lines :
            /\ Matches(lines[i], functionName)
            /\ \A j \in 1..(i - 1) : ~Matches(lines[j], functionName)
    ELSE 0

\* Lines 160-184: the lines appended to functionCode from line i on.
RECURSIVE scanLines(_, _, _, _, _, _)
scanLines(lines, i, startLine, braceCount, started, functionCode) ==
    IF i > Len(lines) THEN functionCode
    ELSE LET line == lines[i]
             openBraces == CountOf(line, "{")
             closeBraces == CountOf(line, "}")
             nowStarted == started \/ openBraces > 0
             count == braceCount + openBraces - closeBraces
         IN IF nowStarted
            THEN IF count = 0 /\ i > startLine
                 THEN Append(functionCode, line)
                 ELSE scanLines(lines, i + 1, startLine, count, TRUE,
                                Append(functionCode, line))
            ELSE scanLines(lines, i + 1, startLine, braceCount, FALSE,
                           Append(functionCode, line))

\* Line 188: functionCode.replace(/^export\s+/, "").trim(): the qualifier
\* is removed when the text begins with it, that is when the first line is
\* not indented; trim() then removes the indentation and the last newline.
stripExport(functionCode) ==
    IF functionCode = <<>> THEN [code |-> <<>>, exported |-> FALSE]
    ELSE [code |-> [functionCode EXCEPT ![1].indent = FALSE],
          exported |-> functionCode[1].indent]

\* Lines 136-189.  The empty string is the empty sequence of lines.
extractFunction(sourceCode, functionName) ==
    LET startLine == findStartLine(sourceCode, functionName)
    IN IF startLine = 0 THEN [code |-> <<>>, exported |-> FALSE]
       ELSE stripExport(scanLines(sourceCode, startLine, startLine, 0, FALSE, <<>>))

InitExtract ==
    /\ arg \in {[fn |-> "extractFunction", sourceCode |-> t, functionName |-> "f"] :
                   t \in SourceTexts}
    /\ ret = NoRet
    /\ pc = "extract"
    /\ instructor = InstructorFiles(NestedImports, "none")
    /\ subs = <<>>
    /\ students = <<>>
    /\ studentResult = NoResult
    /\ gradingReport = EmptyReport
    /\ lastCall = NoCall
    /\ log = <<>>
    /\ results = Report(<<>>, <<>>)
    /\ processed = processResults(<<>>, <<>>)
    /\ own = NoOwn
    /\ gallery = NoGallery

CallExtractFunction ==
    /\ pc = "extract"
    /\ ret' = [returned |-> TRUE,
               value |-> extractFunction(arg.sourceCode, arg.functionName)]
    /\ pc' = "extracted"
    /\ UNCHANGED <<instructor, subs, students, studentResult, gradingReport,
                   lastCall, log, results, processed, own, gallery, arg>>

NextExtract == CallExtractFunction

SpecExtract == InitExtract /\ [][NextExtract]_vars

-----------------------------------------------------------------------------
(* Properties of extractFunction *)

RECURSIVE Flatten(_)
Flatten(lines) ==
    IF lines = <<>> THEN <<>> ELSE lines[1].braces \o Flatten(Tail(lines))

\* The positions of a brace sequence at which the depth, counted from its
\* start, is back at zero.
RECURSIVE Depth(_, _)
Depth(bs, n) ==
    IF n = 0 THEN 0
    ELSE Depth(bs, n - 1) + (IF bs[n] = "{" THEN 1 ELSE -1)

Balanced(bs) ==
    /\ \A n \in 1..Len(bs) : Depth(bs, n) >= 0
    /\ Depth(bs, Len(bs)) = 0

\* The text is brace-balanced as a whole and the first declaration of the
\* function has a body: the first brace after it opens a block that is
\* closed.
WellFormedDeclaration(lines, functionName) ==
    LET s == findStartLine(lines, functionName)
        after == Flatten(SubSeq(lines, s, Len(lines)))
    IN /\ s # 0
       /\ Balanced(Flatten(lines))
       /\ after # <<>> /\ after[1] = "{"
       /\ \E n \in 1..Len(after) : Depth(after, n) = 0

Extracted == pc = "extracted" /\ arg.fn = "extractFunction"

\* The text declares the function once, and the whole function, body
\* included, is on the declaration line.
WholeFunctionOnDeclarationLine(lines, functionName) ==
    /\ Cardinality({i \in DOMAIN lines : Matches(lines[i], functionName)}) = 1
    /\ \A i \in DOMAIN lines :
          Matches(lines[i], functionName) =>
             lines[i].braces # <<>> /\ Balanced(lines[i].braces)

\* C13: for every source text with a well-formed, brace-balanced
\* declaration of the target function, extractFunction returns a fragment
\* whose first line is the declaration line and which has as many opening
\* as closing braces, also when the whole function is on the declaration
\* line and when the declaration is nested in an enclosing block.  Stated
\* here for the texts of the first of the two cases the claim names: the
\* whole function is on the declaration line.
C13_FragmentIsBalanced ==
    (/\ Extracted
     /\ WellFormedDeclaration(arg.sourceCode, arg.functionName)
     /\ WholeFunctionOnDeclarationLine(arg.sourceCode, arg.functionName)) =>
        LET code == ret.value.code
        IN /\ code # <<>>
           /\ Matches(code[1], arg.functionName)
           /\ Len(SelectSeq(Flatten(code), LAMBDA b : b = "{")) =
                 Len(SelectSeq(Flatten(code), LAMBDA b : b = "}"))

\* C14: for every source text without a declaration of the target function
\* name, extractFunction returns the empty string.
C14_NoDeclarationGivesEmpty ==
    (Extracted /\ \A i \in DOMAIN arg.sourceCode :
                     ~Matches(arg.sourceCode[i], arg.functionName)) =>
        ret.value.code = <<>>

\* A text of three lines that declares a function of a longer name, with a
\* body, and not the target.
C14_Witness ==
    /\ Extracted
    /\ Len(arg.sourceCode) = 3
    /\ \A i \in DOMAIN arg.sourceCode : arg.sourceCode[i].declares # "f"
    /\ arg.sourceCode[1].declares = "fx"
    /\ arg.sourceCode[1].braces = <<"{">>
    /\ arg.sourceCode[3].braces = <<"}">>
    /\ ret.value.code = <<>>

-----------------------------------------------------------------------------
(* llm-grader.ts: generateManualGrading, callGeminiAPI, parseGradingResponse *)

GradeFiles == {"studentCode", "instructorTests", "studentTests"}

ResponseFields ==
    {"computeProgressScore", "overallScore", "feedback", "strengths", "weaknesses"}

Scores == {0, 8}

\* Lines 362-398: an object of the response schema, and one that carries
\* only some of its fields.
FullResponse(score) ==
    [computeProgressScore |-> score, overallScore |-> score,
     feedback |-> "Nice work on the loop", strengths |-> <<"clear">>,
     weaknesses |-> <<"untested">>]

ResponseObject(fields, score) == [f \in fields |-> FullResponse(score)[f]]

\* What JSON.parse makes of the text of the response.
JsonTexts ==
    {[kind |-> "unparseable"], [kind |-> "null"], [kind |-> "number"]}
    \cup {[kind |-> "object", fields |-> ResponseObject(F, s)] :
             F \in SUBSET ResponseFields, s \in Scores}

\* What ai.models.generateContent does: it rejects, it resolves without a
\* candidate, with a candidate part without text, or with a text, bare or
\* wrapped in a markdown code block.
LlmBehaviours ==
    {[kind |-> "throws"], [kind |-> "noCandidates"], [kind |-> "noText"]}
    \cup {[kind |-> "text", fenced |-> b, json |-> j] : b \in BOOLEAN, j \in JsonTexts}

\* Lines 425-431 and 440-446.
fallbackResponse ==
    [computeProgressScore |-> 0, overallScore |-> 0,
     feedback |-> "Could not parse grading response",
     strengths |-> <<>>, weaknesses |-> <<>>]

\* Lines 351-448.  A code block is unwrapped only around an object (the
\* pattern asks for braces); anything else wrapped in one goes to
\* JSON.parse as it is and fails there.
callGeminiAPI(prompt, llm) ==
    IF llm.kind \in {"throws", "noCandidates", "noText"}
    THEN [kind |-> "object", fields |-> fallbackResponse]
    ELSE IF llm.json.kind = "unparseable" \/ (llm.fenced /\ llm.json.kind # "object")
    THEN [kind |-> "object", fields |-> fallbackResponse]
    ELSE llm.json

\* Mutant of parseGradingResponse: an object is returned as it came.
parseGradingResponse_unchecked(response) ==
    IF response.kind = "object" THEN response.fields
    ELSE [fallbackResponse EXCEPT !.weaknesses = <<"Response parsing error">>]

\* Lines 462-500.  typeof null is "object", so the property access throws
\* on null and the catch block answers.
parseGradingResponse(response) ==
    IF response.kind = "null"
    THEN [computeProgressScore |-> 0, overallScore |-> 0,
          feedback |-> "Error parsing grading response: TypeError",
          strengths |-> <<>>, weaknesses |-> <<"Response parsing error">>]
    ELSE IF /\ response.kind = "object"
            /\ {"computeProgressScore", "overallScore", "feedback"}
                  \subseteq DOMAIN response.fields
    THEN [computeProgressScore |-> response.fields.computeProgressScore,
          overallScore |-> response.fields.overallScore,
          feedback |-> response.fields.feedback,
          strengths |-> IF "strengths" \in DOMAIN response.fields
                        THEN response.fields.strengths ELSE <<>>,
          weaknesses |-> IF "weaknesses" \in DOMAIN response.fields
                         THEN response.fields.weaknesses ELSE <<>>]
    ELSE [fallbackResponse EXCEPT !.weaknesses = <<"Response parsing error">>]

\* Lines 67-71: readFileAsync(...).catch(() => "").
readFileAsync(readable, file) == IF readable[file] THEN "text" ELSE ""

\* Lines 30-131.  statusMalformed: the studentTestResult or
\* implementationStatus handed in lacks the collection the prompt builder
\* iterates over (lines 236-258), which throws inside the try block.
generateManualGrading(readable, statusMalformed, llm) ==
    LET prompt == [f \in GradeFiles |-> readFileAsync(readable, f)]
    IN IF statusMalformed
       THEN [computeProgressScore |-> 0, overallScore |-> 0,
             feedback |-> "Error during grading: TypeError",
             strengths |-> <<>>, weaknesses |-> <<"Could not complete grading">>]
       ELSE parseGradingResponse(callGeminiAPI(prompt, llm))

InitGrade ==
    /\ arg \in {[fn |-> "generateManualGrading", readable |-> r,
                 statusMalformed |-> m, llm |-> l] :
                   r \in [GradeFiles -> BOOLEAN], m \in BOOLEAN, l \in LlmBehaviours}
    /\ ret = NoRet
    /\ pc = "grade"
    /\ instructor = InstructorFiles(NestedImports, "none")
    /\ subs = <<>>
    /\ students = <<>>
    /\ studentResult = NoResult
    /\ gradingReport = EmptyReport
    /\ lastCall = NoCall
    /\ log = <<>>
    /\ results = Report(<<>>, <<>>)
    /\ processed = processResults(<<>>, <<>>)
    /\ own = NoOwn
    /\ gallery = NoGallery

CallGenerateManualGrading ==
    /\ pc = "grade"
    /\ ret' = [returned |-> TRUE,
               value |-> generateManualGrading(arg.readable, arg.statusMalformed, arg.llm)]
    /\ pc' = "graded"
    /\ UNCHANGED <<instructor, subs, students, studentResult, gradingReport,
                   lastCall, log, results, processed, own, gallery, arg>>

NextGrade == CallGenerateManualGrading

SpecGrade == InitGrade /\ [][NextGrade]_vars

-----------------------------------------------------------------------------
(* Properties of generateManualGrading *)

Graded == pc = "graded" /\ arg.fn = "generateManualGrading"

Structured(record) == DOMAIN record = ResponseFields

ZeroWithDiagnostic(record) ==
    /\ record.computeProgressScore = 0
    /\ record.overallScore = 0
    /\ record.feedback # ""

Unreadable(readable) == \E f \in GradeFiles : ~readable[f]

\* The failures of the collaborator the claim lists: the call throws, the
\* response has no candidates, its text is not parseable, or the parsed
\* response lacks a required field of the schema.
CollaboratorFailed(llm) ==
    \/ llm.kind \in {"throws", "noCandidates"}
    \/ /\ llm.kind = "text"
       /\ \/ llm.json.kind = "unparseable"
          \/ llm.json.kind = "object" /\ DOMAIN llm.json.fields # ResponseFields

\* C15 as stated: generateManualGrading always resolves with a structured
\* record, and in every failure case (a failure of the LLM collaborator, an
\* unreadable student or instructor file) the record has
\* computeProgressScore = 0, overallScore = 0 and a diagnostic feedback
\* text.
C15_EveryFailureGivesZeroRecord ==
    Graded =>
        /\ Structured(ret.value)
        /\ (CollaboratorFailed(arg.llm) \/ Unreadable(arg.readable)) =>
              ZeroWithDiagnostic(ret.value)

\* The responses that parseGradingResponse accepts: an object that carries
\* the two scores and the feedback, bare or in a code block.
Accepted(llm) ==
    /\ llm.kind = "text"
    /\ llm.json.kind = "object"
    /\ {"computeProgressScore", "overallScore", "feedback"} \subseteq DOMAIN llm.json.fields

\* C15 amended: generateManualGrading always resolves with a structured
\* record.  Whenever the response is not an accepted one (the call throws,
\* no candidate, no text, text not parseable, not an object, or an object
\* without computeProgressScore, overallScore or feedback) the record has
\* both scores 0 and a non-empty feedback.  An accepted response without
\* strengths or weaknesses is returned with its own scores and an empty
\* list in their place, and an unreadable file changes nothing: the record
\* is the one returned when every file is readable.
C15_ZeroRecordUnlessResponseAccepted ==
    Graded =>
        /\ Structured(ret.value)
        /\ (arg.statusMalformed \/ ~Accepted(arg.llm)) => ZeroWithDiagnostic(ret.value)
        /\ (~arg.statusMalformed /\ Accepted(arg.llm)) =>
              /\ ret.value.computeProgressScore = arg.llm.json.fields.computeProgressScore
              /\ ret.value.overallScore = arg.llm.json.fields.overallScore
              /\ ("strengths" \notin DOMAIN arg.llm.json.fields) => ret.value.strengths = <<>>
              /\ ("weaknesses" \notin DOMAIN arg.llm.json.fields) => ret.value.weaknesses = <<>>
        /\ ret.value = generateManualGrading([f \in GradeFiles |-> TRUE],
                                             arg.statusMalformed, arg.llm)

\* The student's file cannot be read and the response lacks its feedback.
C15_Witness ==
    /\ Graded
    /\ ~arg.readable["studentCode"]
    /\ ~arg.statusMalformed
    /\ arg.llm.kind = "text"
    /\ arg.llm.json.kind = "object"
    /\ DOMAIN arg.llm.json.fields = ResponseFields \ {"feedback"}
    /\ arg.llm.json.fields.overallScore = 8
    /\ ZeroWithDiagnostic(ret.value)

-----------------------------------------------------------------------------
(* The gallery of runAutograder over reports of more than one row *)

MaxGalleryStudents == 7

\* What collectPersonalArt left in a record: art, or an error.
GalleryArts ==
    {[pathData |-> <<"segment">>],
     [pathData |-> <<>>, error |-> "Command failed: npx ts-node wrapper.ts"]}

\* The state of runAutograder after its loop over n submissions, each with
\* art or without.
InitGrid ==
    /\ \E n \in 0..MaxGalleryStudents :
          /\ students = [i \in 1..n |-> i]
          /\ \E arts \in [1..n -> GalleryArts] :
                gradingReport =
                    [students |-> [i \in 1..n |->
                                      [InitialResult(i) EXCEPT !.personalArt = arts[i]]],
                     summary |-> [totalStudents |-> n,
                                  passedImplementationTests |-> 0,
                                  passedStudentTests |-> 0,
                                  personalArtGenerationSuccess |->
                                      Cardinality({i \in 1..n : ~HasError(arts[i])})]]
    /\ pc = "grid"
    /\ instructor = InstructorFiles(NestedImports, "none")
    /\ subs = <<>>
    /\ studentResult = NoResult
    /\ lastCall = NoCall
    /\ log = <<>>
    /\ results = Report(<<>>, <<>>)
    /\ processed = processResults(<<>>, <<>>)
    /\ own = NoOwn
    /\ gallery = NoGallery
    /\ arg = NoArg
    /\ ret = NoRet

NextGrid == SaveReport

SpecGrid == InitGrid /\ [][NextGrid]_vars

\* The student ids of the records without an art error, in report order.
IdsWithArt ==
    LET kept == SelectSeq(gradingReport.students, ArtWithoutError)
    IN [i \in DOMAIN kept |-> kept[i].studentId]

\* C16: the gallery has a canvas for exactly the submissions whose art
\* carries no error, in report order; no two canvases share a cell
\* (row, column); every cell, with its label and canvas, lies inside the
\* computed dimensions of the grid.
C16_GalleryLayout ==
    gallery.rendered =>
        LET canvases == gallery.canvases
        IN /\ [i \in DOMAIN canvases |-> canvases[i].studentId] = IdsWithArt
           /\ \A i, j \in DOMAIN canvases :
                 i # j => <<canvases[i].row, canvases[i].col>> #
                          <<canvases[j].row, canvases[j].col>>
           /\ \A i \in DOMAIN canvases :
                 /\ canvases[i].col \in 0..(studentsPerRow - 1)
                 /\ canvases[i].row \in 0..(gallery.totalRows - 1)
                 /\ canvases[i].xOffset >= 0
                 /\ canvases[i].xOffset + canvasWidth <= gallery.fullWidth
                 /\ canvases[i].yOffset >= 0
                 /\ canvases[i].yOffset + labelHeight + canvasHeight <= gallery.fullHeight

\* Seven records, the second without art: six canvases, the last of them
\* (the seventh submission) opening the second row.
C16_Witness ==
    /\ gallery.rendered
    /\ Len(gradingReport.students) = 7
    /\ HasError(gradingReport.students[2].personalArt)
    /\ Len(gallery.canvases) = 6
    /\ gallery.canvases[6].studentId = 7
    /\ gallery.canvases[6].row = 1
    /\ gallery.canvases[6].col = 0

-----------------------------------------------------------------------------
(* Freshness of the sandbox, and cleanup against the outcome of runTests *)

\* C17: every call of runTests and collectPersonalArt executes its child
\* in a fresh sandbox: when the child is executed the sandbox directory
\* holds only files that this call placed there, and none left by an
\* earlier call, by a failed cleanup, or already present under the
\* sandbox's name before the call.  Stated for the calls in which no fs
\* call of the autograder fails.
C17_ChildRunsInFreshSandbox ==
    (Returned1 /\ lastCall.result.executed /\ lastCall.env.fault = "none") =>
        \A n \in FileNames :
            lastCall.result.exec.files[n] # Absent =>
                lastCall.result.exec.files[n].owner \in {"instructor", "student", "autograder"}

\* C19: whenever the child of runTests exits with status zero and its
\* output parses with an empty failures list, runTests returns
\* overall = true with the parsed details and no errors field, whether or
\* not the removal of the sandbox succeeds.  Stated for the runs that
\* report at least one passing case.
C19_PassingRunUnaffectedByCleanup ==
    (/\ IsRunTests
     /\ lastCall.result.executed
     /\ lastCall.env.child.status = 0
     /\ lastCall.env.child.stdout.kind = "report"
     /\ lastCall.env.child.stdout.passes # <<>>
     /\ lastCall.env.child.stdout.failures = <<>>) =>
        /\ lastCall.result.outcome.overall = TRUE
        /\ lastCall.result.outcome.details =
              processResults(lastCall.env.child.stdout.passes, <<>>).testResults
        /\ ~HasErrors(lastCall.result.outcome)

-----------------------------------------------------------------------------
(* llm-grader.ts: extractTestsForFunction *)

MaxTokens == 5

\* A test module, as far as the pattern of extractTestsForFunction looks
\* at it: "describe" stands for describe("<label>", function () { ,
\* "it" for it("...", function () { , "close" for }); and "text" for
\* anything else.
TestTokens ==
    {[t |-> "describe", label |-> l] : l \in {"f()", "g()"}}
    \cup {[t |-> k, label |-> ""] : k \in {"it", "close", "text"}}

TestTexts == UNION {[1..n -> TestTokens] : n \in 0..MaxTokens}

\* Lines 198-199: describe\s*\(\s*["']<name>\(\)["']\s*,[^{]*{ .
OpensGroup(token, functionName) ==
    token.t = "describe" /\ token.label = functionName \o "()"

\* Lines 198-199: \}\s*\)\s*; .
ClosesBlock(token) == token.t = "close"

\* Lines 198-199: ([\s\S]*?) followed by the closing pattern: the lazy
\* quantifier stops at the first close after position p.
firstCloseAfter(tokens, p) ==
    CHOOSE q \in (p + 1)..Len(tokens) :
        /\ ClosesBlock(tokens[q])
        /\ \A k \in (p + 1)..(q - 1) : ~ClosesBlock(tokens[k])

\* Lines 194-204: match[0] of the leftmost match, or "" (the empty
\* sequence) when there is none.
extractTestsForFunction(testCode, functionName) ==
    LET starts == {p \in DOMAIN testCode :
                      /\ OpensGroup(testCode[p], functionName)
                      /\ \E q \in (p + 1)..Len(testCode) : ClosesBlock(testCode[q])}
    IN IF starts = {} THEN <<>>
       ELSE LET p == CHOOSE x \in starts : \A y \in starts : x <= y
            IN SubSeq(testCode, p, firstCloseAfter(testCode, p))

InitTests ==
    /\ arg \in {[fn |-> "extractTestsForFunction", testCode |-> t, functionName |-> "f"] :
                   t \in TestTexts}
    /\ ret = NoRet
    /\ pc = "extractTests"
    /\ instructor = InstructorFiles(NestedImports, "none")
    /\ subs = <<>>
    /\ students = <<>>
    /\ studentResult = NoResult
    /\ gradingReport = EmptyReport
    /\ lastCall = NoCall
    /\ log = <<>>
    /\ results = Report(<<>>, <<>>)
    /\ processed = processResults(<<>>, <<>>)
    /\ own = NoOwn
    /\ gallery = NoGallery

CallExtractTestsForFunction ==
    /\ pc = "extractTests"
    /\ ret' = [returned |-> TRUE,
               value |-> extractTestsForFunction(arg.testCode, arg.functionName)]
    /\ pc' = "testsExtracted"
    /\ UNCHANGED <<instructor, subs, students, studentResult, gradingReport,
                   lastCall, log, results, processed, own, gallery, arg>>

NextTests == CallExtractTestsForFunction

SpecTests == InitTests /\ [][NextTests]_vars

-----------------------------------------------------------------------------
(* Properties of extractTestsForFunction *)

\* The number of blocks open after the tokens p..q.
RECURSIVE OpenBlocks(_, _, _)
OpenBlocks(tokens, p, q) ==
    IF q < p THEN 0
    ELSE OpenBlocks(tokens, p, q - 1) +
            (IF tokens[q].t \in {"describe", "it"} THEN 1
             ELSE IF tokens[q].t = "close" THEN -1 ELSE 0)

\* The group opened at p is closed at q: q is the first position at which
\* every block opened from p on is closed again.
GroupClosesAt(tokens, p, q) ==
    /\ OpenBlocks(tokens, p, q) = 0
    /\ \A k \in p..(q - 1) : OpenBlocks(tokens, p, k) > 0

\* C18: for a test source with a describe group labeled <name>() that
\* holds one or more nested test blocks, extractTestsForFunction returns
\* the text from the start of the group through the close of the group
\* itself, not through the close of an inner block; it returns the empty
\* string when no group with that label exists.
C18_WholeGroupReturned ==
    (pc = "testsExtracted" /\ arg.fn = "extractTestsForFunction") =>
        LET tokens == arg.testCode
        IN /\ \A p, q \in DOMAIN tokens :
                 (/\ OpensGroup(tokens[p], arg.functionName)
                  /\ \A k \in 1..(p - 1) : ~OpensGroup(tokens[k], arg.functionName)
                  /\ GroupClosesAt(tokens, p, q)
                  /\ \E k \in (p + 1)..(q - 1) : tokens[k].t = "it")
                 => ret.value = SubSeq(tokens, p, q)
           /\ (\A p \in DOMAIN tokens : ~OpensGroup(tokens[p], arg.functionName))
                 => ret.value = <<>>

====
